---- MODULE Spec2Model ----
(***************************************************************************)
(* A model of the editing core of benten: the YamlDoc document state       *)
(* machine and its section editor (benten/editing/yamldoc.py), the         *)
(* position-tracking loader with its list-as-map promotion and reverse     *)
(* lookup (benten/editing/lineloader.py) and the enum type descriptor      *)
(* (benten/cwl/enumtype.py).                                               *)
(*                                                                         *)
(* Text is a sequence of one-character strings; lines and columns are      *)
(* zero-based as in the source, so the k-th line of a buffer L is L[k+1].  *)
(***************************************************************************)
EXTENDS Integers, Sequences, FiniteSets, TLC

VARIABLES
    raw_text,        \* BaseDoc.raw_text
    raw_lines,       \* BaseDoc.raw_lines
    yaml,            \* YamlDoc.yaml (NoneNode when None)
    last_good_yaml,  \* YamlDoc.last_good_yaml
    yaml_error,      \* YamlDoc.yaml_error ("None" or "DocumentError")
    last,            \* the last call: its name, arguments, outcome
    good_parse,      \* history: tree of the most recent successful parser run
    edits,           \* number of section edits since the text was last replaced
    symbols,         \* CWLEnumType.symbols of every enum descriptor, by name
    problems,        \* the problems list handed to the last parse call
    lookup_nodes,    \* the lookup nodes registered with the last call's code_intel
    pass,            \* the last CWLEnumType.parse call: arguments and context
    lam,             \* the last LAM construction: input and result
    diff             \* the last edit_from_quick_diff call: input and result

docvars == <<raw_text, raw_lines, yaml, last_good_yaml, yaml_error, last, good_parse, edits>>
enumvars == <<symbols, problems, lookup_nodes, pass>>
vars == <<raw_text, raw_lines, yaml, last_good_yaml, yaml_error, last, good_parse, edits,
          symbols, problems, lookup_nodes, pass, lam, diff>>

(***************************************************************************)
(* Python helpers on sequences and strings.                                *)
(***************************************************************************)
Min(a, b) == IF a < b THEN a ELSE b
Max(a, b) == IF a > b THEN a ELSE b

\* the element of a one-element set; Only({e : x \in {v}}) is e with x bound
\* to the value of v, computed once (a local variable of the code)
Only(S) == CHOOSE v \in S : TRUE

\* s[a:b] with Python's clamping and negative indices
PySlice(s, a, b) ==
    LET n  == Len(s)
        a1 == IF a < 0 THEN Max(a + n, 0) ELSE Min(a, n)
        b1 == IF b < 0 THEN Max(b + n, 0) ELSE Min(b, n)
    IN  SubSeq(s, a1 + 1, b1)

\* "".join(list)
RECURSIVE Join(_)
Join(ss) == IF ss = <<>> THEN <<>> ELSE Head(ss) \o Join(Tail(ss))

\* sep.join(list)
RECURSIVE JoinSep(_, _)
JoinSep(ss, sep) ==
    IF ss = <<>> THEN <<>>
    ELSE IF Len(ss) = 1 THEN ss[1]
    ELSE ss[1] \o sep \o JoinSep(Tail(ss), sep)

Repeat(ch, n) == [k \in 1..n |-> ch]

\* str.splitlines(keepends=True)
RECURSIVE SplitLines(_)
SplitLines(t) ==
    IF t = <<>> THEN <<>>
    ELSE IF \E k \in 1..Len(t) : t[k] = "\n"
         THEN LET k == CHOOSE k \in 1..Len(t) : t[k] = "\n" /\ \A m \in 1..(k-1) : t[m] # "\n"
              IN  <<SubSeq(t, 1, k)>> \o SplitLines(SubSeq(t, k + 1, Len(t)))
         ELSE <<t>>

\* number of leading characters of s that belong to cs
LeadIn(s, cs) ==
    CHOOSE k \in 0..Len(s) : (\A m \in 1..k : s[m] \in cs) /\ (k = Len(s) \/ s[k+1] \notin cs)

\* number of trailing characters of s that belong to cs
TrailIn(s, cs) ==
    CHOOSE k \in 0..Len(s) :
        (\A m \in (Len(s)-k+1)..Len(s) : s[m] \in cs) /\ (k = Len(s) \/ s[Len(s)-k] \notin cs)

Whitespace == {" ", "\n"}

\* len(s) - len(s.lstrip())
IndentLevel(s) == LeadIn(s, Whitespace)

Letters == {"a", "b", "c", "d", "e", "l", "m", "n", "p", "q", "x", "y", "z"}

(***************************************************************************)
(* Parsed values.  Every value is a record of one shape: kind is "str"     *)
(* (Ystr), "map" (Ydict) or "none" (Python None, which carries no marks);  *)
(* items is the ordered list of (key, value) pairs of a mapping.           *)
(***************************************************************************)
Mark(l, c) == [line |-> l, column |-> c]

NoneNode ==
    [kind |-> "none", val |-> <<>>, style |-> "", flow |-> FALSE,
     start |-> Mark(0, 0), end |-> Mark(0, 0), items |-> <<>>]

Ystr(value, style, start, end) ==
    [kind |-> "str", val |-> value, style |-> style, flow |-> FALSE,
     start |-> start, end |-> end, items |-> <<>>]

Ydict(items, flow, start, end) ==
    [kind |-> "map", val |-> <<>>, style |-> "", flow |-> flow,
     start |-> start, end |-> end, items |-> items]

\* dict insertion: a repeated key keeps its place and takes the later value
PutItem(items, key, v) ==
    IF \E m \in 1..Len(items) : items[m].key = key
    THEN [m \in 1..Len(items) |-> IF items[m].key = key THEN [key |-> key, value |-> v] ELSE items[m]]
    ELSE Append(items, [key |-> key, value |-> v])

(***************************************************************************)
(* The loader, yaml.load(raw_cwl, YSafeLineLoader), on the subset of YAML  *)
(* the documents of this model use: block mappings with simple keys, plain *)
(* scalars (possibly continued on deeper-indented lines), single-quoted    *)
(* scalars, literal block scalars ("|" and "|-"), flow mappings with at    *)
(* most one entry, and empty values.  The marks are those of the loader:   *)
(* a block mapping ends where the next token starts.                       *)
(***************************************************************************)
Body(l) == IF Len(l) > 0 /\ l[Len(l)] = "\n" THEN SubSeq(l, 1, Len(l) - 1) ELSE l
Ind(l) == LeadIn(Body(l), {" "})
Blank(l) == Ind(l) = Len(Body(l))
RStrip(s) == SubSeq(s, 1, Len(s) - TrailIn(s, {" "}))
Strip(s) == SubSeq(s, LeadIn(s, {" "}) + 1, Len(s) - TrailIn(s, {" "}))
IsAlpha(s) == Len(s) > 0 /\ \A k \in 1..Len(s) : s[k] \in Letters

\* index of the first non-blank line at or after line i, or the line count
Nnb(L, i) ==
    IF \E j \in i..(Len(L)-1) : ~Blank(L[j+1])
    THEN CHOOSE j \in i..(Len(L)-1) : ~Blank(L[j+1]) /\ \A m \in i..(j-1) : Blank(L[m+1])
    ELSE Len(L)

\* index of the first ":" that ends a key (followed by a space or the end), or -1
Colon(s) ==
    LET Is(k) == s[k+1] = ":" /\ (k + 1 = Len(s) \/ s[k+2] = " ")
    IN  IF \E k \in 0..(Len(s)-1) : Is(k)
        THEN CHOOSE k \in 0..(Len(s)-1) : Is(k) /\ \A m \in 0..(k-1) : ~Is(m)
        ELSE -1

\* s.find(ch, from)
Find(s, ch, from) ==
    IF \E k \in from..(Len(s)-1) : s[k+1] = ch
    THEN CHOOSE k \in from..(Len(s)-1) : s[k+1] = ch /\ \A m \in from..(k-1) : s[m+1] # ch
    ELSE -1

ParseError == [ok |-> FALSE, node |-> NoneNode, next |-> 0]
Parsed(node, next) == [ok |-> TRUE, node |-> node, next |-> next]

QuotedAt(L, i, c) ==
    LET s == PySlice(Body(L[i+1]), c, Len(L[i+1]))
        k == Find(s, "'", 1)
    IN  IF k < 0 \/ Strip(PySlice(s, k + 1, Len(s))) # <<>> THEN ParseError
        ELSE Parsed(Ystr(PySlice(s, 1, k), "'", Mark(i, c), Mark(i, c + k + 1)), i + 1)

FlowAt(L, i, c) ==
    LET s == PySlice(Body(L[i+1]), c, Len(L[i+1]))
        k == Find(s, "}", 0)
        inner == PySlice(s, 1, k)
        p == Colon(inner)
    IN  IF k < 0 \/ Strip(PySlice(s, k + 1, Len(s))) # <<>> THEN ParseError
        ELSE IF inner = <<>> THEN Parsed(Ydict(<<>>, TRUE, Mark(i, c), Mark(i, c + 2)), i + 1)
        ELSE IF p < 1 \/ p + 2 >= Len(inner) \/ ~IsAlpha(PySlice(inner, 0, p))
                \/ ~IsAlpha(PySlice(inner, p + 2, Len(inner)))
             THEN ParseError
        ELSE Parsed(Ydict(<<[key |-> PySlice(inner, 0, p),
                             value |-> Ystr(PySlice(inner, p + 2, Len(inner)), "",
                                            Mark(i, c + 1 + p + 2), Mark(i, c + k))]>>,
                          TRUE, Mark(i, c), Mark(i, c + k + 1)), i + 1)

LiteralAt(L, i, c, pind) ==
    LET hdr == RStrip(PySlice(Body(L[i+1]), c, Len(L[i+1])))
        j == Nnb(L, i + 1)
        has == j < Len(L) /\ Ind(L[j+1]) > pind
        ci == Ind(L[j+1])
        In(m) == Blank(L[m+1]) \/ Ind(L[m+1]) >= ci
        \* first line after the content
        k == IF ~has THEN j
             ELSE IF \E m \in j..(Len(L)-1) : ~In(m)
                  THEN CHOOSE m \in j..(Len(L)-1) : ~In(m) /\ \A r \in j..(m-1) : In(r)
                  ELSE Len(L)
        lastl == CHOOSE m \in j..(k-1) : ~Blank(L[m+1]) /\ \A r \in (m+1)..(k-1) : Blank(L[r+1])
        content == [m \in 1..(lastl - i) |->
                        IF i + m < j THEN <<>> ELSE PySlice(Body(L[i+m+1]), ci, Len(L[i+m+1]))]
        value == IF ~has THEN <<>>
                 ELSE JoinSep(content, <<"\n">>) \o (IF hdr = <<"|", "-">> THEN <<>> ELSE <<"\n">>)
        end == IF k = Len(L) /\ L[Len(L)][Len(L[Len(L)])] # "\n"
               THEN Mark(Len(L) - 1, Len(L[Len(L)]))
               ELSE Mark(k, 0)
    IN  IF hdr \notin {<<"|">>, <<"|", "-">>} THEN ParseError
        ELSE Parsed(Ystr(value, "|", Mark(i, c), end), k)

RECURSIVE PlainCont(_, _, _, _, _, _)

\* a plain scalar whose next candidate continuation line is j
PlainContAt(L, k, j, pind, text, start, end) ==
    IF j = Len(L) \/ Ind(L[j+1]) <= pind THEN Parsed(Ystr(text, "", start, end), k)
    ELSE Only({IF Colon(cs) >= 0 THEN ParseError
               ELSE Only({PlainCont(L, j + 1, pind, text2, start, Mark(j, Ind(L[j+1]) + Len(cs)))
                          : text2 \in {text \o (IF j = k THEN <<" ">> ELSE Repeat("\n", j - k)) \o cs}})
               : cs \in {Strip(Body(L[j+1]))}})

\* continuation lines of a plain scalar: non-blank lines indented beyond pind
PlainCont(L, k, pind, text, start, end) ==
    Only({PlainContAt(L, k, j, pind, text, start, end) : j \in {Nnb(L, k)}})

RECURSIVE ValueAt(_, _, _, _, _)
RECURSIVE BlockMap(_, _, _, _, _)

\* the node whose first character is at line i, column c, inside a mapping
\* indented by pind; inline when it follows "key: " on the key's line
ValueAt(L, i, c, pind, inline) ==
    LET s == PySlice(Body(L[i+1]), c, Len(L[i+1]))
        ch == s[1]
    IN  IF ch = "'" THEN QuotedAt(L, i, c)
        ELSE IF ch = "{" THEN FlowAt(L, i, c)
        ELSE IF ch = "|" THEN LiteralAt(L, i, c, pind)
        ELSE IF ch \in {"}", "-", ":"} THEN ParseError
        ELSE IF Colon(s) >= 0
             THEN IF inline THEN ParseError ELSE BlockMap(L, i, i, c, <<>>)
        ELSE Only({PlainCont(L, i + 1, pind, text, Mark(i, c), Mark(i, c + Len(text)))
                   : text \in {RStrip(s)}})

\* the value of the entry whose key is on line j of a mapping indented by n:
\* what follows the colon at column c, or a deeper-indented node below, or None
EntryValue(L, j, n, rest, c) ==
    IF Strip(rest) = <<>>
    THEN Only({IF j2 < Len(L) /\ Ind(L[j2+1]) > n
               THEN ValueAt(L, j2, Ind(L[j2+1]), n, FALSE)
               ELSE Parsed(NoneNode, j + 1)
               : j2 \in {Nnb(L, j + 1)}})
    ELSE ValueAt(L, j, c, n, TRUE)

\* after an entry: the next entry on line jn, or the end of the mapping
BlockMapNext(L, i0, n, items, jn) ==
    IF jn = Len(L) THEN Parsed(Ydict(items, FALSE, Mark(i0, n), Mark(Len(L), 0)), jn)
    ELSE IF Ind(L[jn+1]) = n THEN BlockMap(L, i0, jn, n, items)
    ELSE IF Ind(L[jn+1]) < n
         THEN Parsed(Ydict(items, FALSE, Mark(i0, n), Mark(jn, Ind(L[jn+1]))), jn)
    ELSE ParseError

\* the entries of the block mapping that started at line i0, from line j on
BlockMap(L, i0, j, n, items) ==
    LET s == PySlice(Body(L[j+1]), n, Len(L[j+1]))
        p == Colon(s)
        key == PySlice(s, 0, p)
        rest == PySlice(s, p + 1, Len(s))
        c == n + p + 1 + LeadIn(rest, {" "})
    IN  IF p < 1 \/ s[1] \in {"{", "}", "'", "|", "-"} THEN ParseError
        ELSE Only({IF ~r.ok THEN ParseError
                   ELSE Only({BlockMapNext(L, i0, n, items2, jn)
                              : items2 \in {PutItem(items, key, r.node)}, jn \in {Nnb(L, r.next)}})
                   : r \in {EntryValue(L, j, n, rest, c)}})

\* the document of lines L whose first non-blank line is j
DocumentAt(L, j) ==
    IF j = Len(L) THEN Parsed(NoneNode, 0)
    ELSE Only({IF ~r.ok THEN ParseError
               ELSE IF Nnb(L, r.next) < Len(L) THEN ParseError
               ELSE r
               : r \in {ValueAt(L, j, Ind(L[j+1]), -1, FALSE)}})

\* parse_yaml_with_line_info(raw_cwl, convert_to_lam=True): ok is FALSE when
\* the loader rejects the text (DocumentError); an empty document loads as None
ParseYamlWithLineInfo(t) ==
    Only({Only({DocumentAt(L, j) : j \in {Nnb(L, 0)}}) : L \in {SplitLines(t)}})

(***************************************************************************)
(* Contents: the IntEnum of outcomes; members are combined with "|".       *)
(***************************************************************************)
Unchanged == 1
Changed == 2
ParseSkipped == 3
ParseSuccess == 4
ParseFail == 5

RECURSIVE BitOr(_, _)
BitOr(a, b) ==
    IF a = 0 THEN b
    ELSE IF b = 0 THEN a
    ELSE (IF a % 2 = 1 \/ b % 2 = 1 THEN 1 ELSE 0) + 2 * BitOr(a \div 2, b \div 2)

(***************************************************************************)
(* YamlDoc.  A document is the record of its five fields; every method is  *)
(* an operator from the document (and its arguments) to the document       *)
(* after the call and what the call returned or whether it raised.         *)
(***************************************************************************)
NoError == "None"
DocumentError == "DocumentError"

Doc == [raw_text |-> raw_text, raw_lines |-> raw_lines, yaml |-> yaml,
        last_good_yaml |-> last_good_yaml, yaml_error |-> yaml_error]

\* YamlDoc.__init__
NewDoc(t) == [raw_text |-> t, raw_lines |-> SplitLines(t), yaml |-> NoneNode,
              last_good_yaml |-> NoneNode, yaml_error |-> NoError]

\* Ydict.empty(): the tree that stands for a document without content
YdictEmpty == Ydict(<<>>, FALSE, Mark(0, 0), Mark(0, 0))

\* Python truth value of a loaded tree, as used by "or"
Falsy(node) ==
    \/ node.kind = "none"
    \/ node.kind = "map" /\ node.items = <<>>
    \/ node.kind = "str" /\ node.val = <<>>

parsed(d) == d.yaml # NoneNode

has_yaml_errors(d) == d.yaml_error # NoError

\* BaseDoc.set_raw_text
BaseSetRawText(d, t) ==
    IF d.raw_text = t
    THEN [doc |-> d, ret |-> Unchanged]
    ELSE [doc |-> [d EXCEPT !.raw_text = t, !.raw_lines = SplitLines(t)], ret |-> Changed]

\* set_raw_text as it would be if a changed text also dropped the last good tree
SetRawTextDropsLastGood(d, t) ==
    LET b == BaseSetRawText(d, t)
    IN  IF b.ret = Unchanged
        THEN [doc |-> b.doc, ret |-> Unchanged]
        ELSE [doc |-> [b.doc EXCEPT !.yaml = NoneNode, !.yaml_error = NoError,
                                    !.last_good_yaml = NoneNode],
              ret |-> Changed]

\* set_raw_text as it would be without the early return for an unchanged text
SetRawTextAlwaysInvalidates(d, t) ==
    LET b == BaseSetRawText(d, t)
    IN  [doc |-> [b.doc EXCEPT !.yaml = NoneNode, !.yaml_error = NoError], ret |-> Changed]

\* set_raw_text as it would be if it left the tree of the replaced text alone
SetRawTextKeepsTree(d, t) == BaseSetRawText(d, t)

\* YamlDoc.set_raw_text
SetRawTextOf(d, t) ==
    LET b == BaseSetRawText(d, t)
    IN  IF b.ret = Unchanged
        THEN [doc |-> b.doc, ret |-> Unchanged]
        ELSE [doc |-> [b.doc EXCEPT !.yaml = NoneNode, !.yaml_error = NoError], ret |-> Changed]

\* YamlDoc.parse_yaml; invoked tells whether the loader ran
ParseYamlOf(d) ==
    IF d.yaml # NoneNode /\ d.yaml_error = NoError
    THEN [doc |-> d, ret |-> ParseSkipped, invoked |-> FALSE]
    ELSE Only({IF r.ok
               THEN Only({[doc |-> [d EXCEPT !.yaml = tree, !.yaml_error = NoError,
                                             !.last_good_yaml = tree],
                           ret |-> ParseSuccess, invoked |-> TRUE]
                          : tree \in {IF Falsy(r.node) THEN YdictEmpty ELSE r.node}})
               ELSE [doc |-> [d EXCEPT !.yaml_error = DocumentError],
                     ret |-> ParseFail, invoked |-> TRUE]
               : r \in {ParseYamlWithLineInfo(d.raw_text)}})

\* YamlDoc.set_raw_text_and_reparse
SetRawTextAndReparseOf(d, t) ==
    Only({IF s.ret = Unchanged /\ parsed(s.doc)
          THEN [doc |-> s.doc, ret |-> BitOr(Unchanged, ParseSkipped), invoked |-> FALSE]
          ELSE Only({[doc |-> q.doc, ret |-> BitOr(q.ret, Changed), invoked |-> q.invoked]
                     : q \in {ParseYamlOf(s.doc)}})
          : s \in {SetRawTextOf(d, t)}})

\* YamlDoc.__getitem__: ok is FALSE when a step of the path raises
RECURSIVE GetItem(_, _)
GetItem(node, path) ==
    IF path = <<>> THEN [ok |-> TRUE, node |-> node]
    ELSE IF node.kind = "map" /\ \E m \in 1..Len(node.items) : node.items[m].key = Head(path)
         THEN LET m == CHOOSE m \in 1..Len(node.items) : node.items[m].key = Head(path)
              IN  GetItem(node.items[m].value, Tail(path))
         ELSE [ok |-> FALSE, node |-> NoneNode]

\* a value with start and end marks (None has none)
HasMarks(node) == node.kind # "none"

\* get_raw_text_for_section once the path has led to value
SectionTextOf(d, value) ==
    LET start_line == value.start.line
        end_line == value.end.line
        indent_level == IndentLevel(d.raw_lines[start_line + 1])
        lines_we_need == PySlice(d.raw_lines, start_line, end_line)
        lines == [k \in 1..Len(lines_we_need) |->
                     IF Len(lines_we_need[k]) > indent_level
                     THEN PySlice(lines_we_need[k], indent_level, Len(lines_we_need[k]))
                     ELSE <<"\n">>]
        Raise == [raised |-> TRUE, text |-> <<>>]
        Return(t) == [raised |-> FALSE, text |-> t]
    IN  IF ~HasMarks(value) THEN Raise
        ELSE IF start_line >= Len(d.raw_lines) THEN Raise
        ELSE IF value.kind = "map" /\ value.flow
             THEN IF value.items = <<>> THEN Return(<<>>) ELSE Raise
        ELSE IF value.kind = "str" /\ value.style = "" THEN Return(value.val)
        ELSE Return(Join(lines))

\* YamlDoc.get_raw_text_for_section
GetRawTextForSection(d, path) ==
    Only({IF ~g.ok THEN [raised |-> TRUE, text |-> <<>>] ELSE SectionTextOf(d, g.node)
          : g \in {GetItem(d.yaml, path)}})

(***************************************************************************)
(* Edit and EditMark (benten/editing/edit.py).  NoneText stands for the    *)
(* text None of an edit that carries only lines.                           *)
(***************************************************************************)
NoneText == <<"None">>
Edit(start, end, text, text_lines) ==
    [start |-> start, end |-> end, text |-> text, text_lines |-> text_lines]
NoEdit == Edit(Mark(0, 0), Mark(0, 0), NoneText, <<>>)

\* _project_raw_text_to_section_as_edit once the path has led to original_value
ProjectOnto(d, text, original_value) ==
    LET raw_text_lines == SplitLines(text)
        start == original_value.start
        end == original_value.end
        sl == original_value.start.line
        indent0 == IF Len(d.raw_lines) # 0 THEN IndentLevel(d.raw_lines[sl + 1]) ELSE 0
        isdict == original_value.kind = "map"
        multiline == \E k \in 1..Len(text) : text[k] = "\n"
        restyle == ~isdict /\ multiline /\ original_value.style = ""
        indent_level == IF (isdict /\ original_value.flow) \/ restyle THEN indent0 + 2 ELSE indent0
        prefix == IF isdict /\ original_value.flow THEN <<(<<"\n">> \o Repeat(" ", indent_level))>>
                  ELSE IF restyle THEN <<(<<" ", "|", "-", "\n">> \o Repeat(" ", indent_level))>>
                  ELSE <<>>
        projected == prefix \o
                     [n \in 1..Len(raw_text_lines) |->
                         (IF Len(raw_text_lines[n]) > 1 /\ n - 1 > 0
                          THEN Repeat(" ", indent_level) ELSE <<>>) \o raw_text_lines[n]]
        Raise == [raised |-> TRUE, edit |-> NoEdit]
        Return(e) == [raised |-> FALSE, edit |-> e]
    IN  IF ~HasMarks(original_value) THEN Raise
        ELSE IF text = <<>> /\ ((isdict /\ ~original_value.flow) \/ (~isdict /\ original_value.style # ""))
             THEN Return(Edit(Mark(start.line, 0), end, text, raw_text_lines))
        ELSE IF Len(d.raw_lines) # 0 /\ sl >= Len(d.raw_lines) THEN Raise
        ELSE IF isdict /\ original_value.flow /\ original_value.items # <<>> THEN Raise
        ELSE IF ~isdict /\ ~multiline THEN Return(Edit(start, end, text, raw_text_lines))
        ELSE Return(Edit(start, end, NoneText, projected))

\* YamlDoc._project_raw_text_to_section_as_edit
ProjectRawTextToSectionAsEdit(d, text, path) ==
    Only({IF ~g.ok THEN [raised |-> TRUE, edit |-> NoEdit] ELSE ProjectOnto(d, text, g.node)
          : g \in {GetItem(d.yaml, path)}})

\* YamlDoc._apply_edit_to_lines
ApplyEditToLines(d, edit) ==
    LET existing_lines == d.raw_lines
        n == Len(existing_lines)
        sl == edit.start.line
        el == edit.end.line
        ec == IF el # sl THEN 0 ELSE edit.end.column
    IN  PySlice(existing_lines, 0, sl)
        \o (IF sl < n THEN <<PySlice(existing_lines[sl + 1], 0, edit.start.column)>> ELSE <<>>)
        \o edit.text_lines
        \o (IF el < n
            THEN <<PySlice(existing_lines[el + 1], ec, Len(existing_lines[el + 1]))>>
                 \o (IF el + 1 < n THEN PySlice(existing_lines, el + 1, n) ELSE <<>>)
            ELSE <<>>)

\* list[i] with Python's negative indices; ok is FALSE on IndexError
PyIndex(s, i) ==
    IF i >= 0 /\ i < Len(s) THEN [ok |-> TRUE, v |-> s[i + 1]]
    ELSE IF i < 0 /\ i + Len(s) >= 0 THEN [ok |-> TRUE, v |-> s[i + Len(s) + 1]]
    ELSE [ok |-> FALSE, v |-> <<>>]

\* YamlDoc.edit_from_quick_diff
EditFromQuickDiff(orig_lines, new_lines) ==
    LET L0 == Len(orig_lines) - 1
        L1 == Len(new_lines) - 1
        \* the n at which the first loop breaks or raises
        UpStop(n) == ~PyIndex(new_lines, n).ok \/ orig_lines[n + 1] # PyIndex(new_lines, n).v
        ustop == IF \E n \in 0..L0 : UpStop(n)
                 THEN CHOOSE n \in 0..L0 : UpStop(n) /\ \A m \in 0..(n-1) : ~UpStop(m)
                 ELSE -1
        upper_n == IF ustop = -1 THEN L0 ELSE ustop
        \* the n at which the second loop breaks or raises
        LoStop(n) == ~PyIndex(new_lines, L1 - n).ok \/ orig_lines[L0 - n + 1] # PyIndex(new_lines, L1 - n).v
        lstop == IF \E n \in 0..L0 : LoStop(n)
                 THEN CHOOSE n \in 0..L0 : LoStop(n) /\ \A m \in 0..(n-1) : ~LoStop(m)
                 ELSE -1
        lower_n == IF lstop = -1 THEN 0 ELSE lstop
    IN  IF ustop # -1 /\ ~PyIndex(new_lines, ustop).ok THEN [raised |-> TRUE, edit |-> NoEdit]
        ELSE IF lstop # -1 /\ ~PyIndex(new_lines, L1 - lstop).ok THEN [raised |-> TRUE, edit |-> NoEdit]
        ELSE [raised |-> FALSE,
              edit |-> Edit(Mark(upper_n, 0), Mark(L0 - lower_n + 1, 0),
                            Join(PySlice(new_lines, upper_n, L1 - lower_n + 1)), <<>>)]

\* set_section_from_raw_text as it would be if the tree were invalidated before
\* the edit is known to apply
SetSectionInvalidatesFirst(d, text, path) ==
    Only({IF pr.raised THEN [raised |-> TRUE, doc |-> d0, edit |-> NoEdit]
          ELSE Only({Only({IF df.raised THEN [raised |-> TRUE, doc |-> d0, edit |-> NoEdit]
                           ELSE [raised |-> FALSE, doc |-> SetRawTextOf(d0, Join(new_lines)).doc,
                                 edit |-> df.edit]
                           : df \in {EditFromQuickDiff(d.raw_lines, new_lines)}})
                     : new_lines \in {ApplyEditToLines(d, pr.edit)}})
          : pr \in {ProjectRawTextToSectionAsEdit(d, text, path)},
            d0 \in {[d EXCEPT !.yaml = NoneNode, !.yaml_error = NoError]}})

\* YamlDoc.set_section_from_raw_text
SetSectionFromRawTextOf(d, text, path) ==
    Only({IF pr.raised THEN [raised |-> TRUE, doc |-> d, edit |-> NoEdit]
          ELSE Only({Only({IF df.raised THEN [raised |-> TRUE, doc |-> d, edit |-> NoEdit]
                           ELSE [raised |-> FALSE, doc |-> SetRawTextOf(d, Join(new_lines)).doc,
                                 edit |-> df.edit]
                           : df \in {EditFromQuickDiff(d.raw_lines, new_lines)}})
                     : new_lines \in {ApplyEditToLines(d, pr.edit)}})
          : pr \in {ProjectRawTextToSectionAsEdit(d, text, path)}})

(***************************************************************************)
(* reverse_lookup (lineloader.py).  A hit is the path and the value found; *)
(* the function returns None (no hit) when no child matches, and raises    *)
(* when a child it examines carries no marks.                              *)
(***************************************************************************)
NoHit == [raised |-> FALSE, hit |-> FALSE, path |-> <<>>, node |-> NoneNode]
LookupRaised == [raised |-> TRUE, hit |-> FALSE, path |-> <<>>, node |-> NoneNode]
Hit(path, v) == [raised |-> FALSE, hit |-> TRUE, path |-> path, node |-> v]

\* the test of reverse_lookup that child v is at (line, col)
LookupMatches(v, line, col) ==
    /\ v.start.line <= line /\ line <= v.end.line
    /\ (v.start.line # v.end.line \/ (v.start.column <= col /\ col <= v.end.column))

RECURSIVE ReverseLookup(_, _, _, _)
RECURSIVE ReverseLookupFrom(_, _, _, _, _)

\* the loop of reverse_lookup over the children of a mapping, from the m-th on
ReverseLookupFrom(line, col, items, m, path) ==
    IF m > Len(items) THEN NoHit
    ELSE LET k == items[m].key
             v == items[m].value
         IN  IF ~HasMarks(v) THEN LookupRaised
             ELSE IF LookupMatches(v, line, col)
                  THEN IF v.kind # "map" THEN Hit(Append(path, k), v)
                       ELSE ReverseLookup(line, col, v, Append(path, k))
             ELSE ReverseLookupFrom(line, col, items, m + 1, path)

ReverseLookup(line, col, doc, path) ==
    IF doc.kind = "map" THEN ReverseLookupFrom(line, col, doc.items, 1, path)
    ELSE IF doc.kind = "str" /\ doc.val = <<>> THEN NoHit
    ELSE LookupRaised

(***************************************************************************)
(* List-as-map promotion (lineloader.py): LAM.__init__ and the branch of   *)
(* _recurse_extract_meta that calls it for the list found under a key.     *)
(***************************************************************************)
secret_missing_key ==
    <<"t", "h", "e", "r", "e", " ", "i", "s", " ", "n", "o", " ", "C", "W",
      "L", " ", "f", "i", "e", "l", "d", " ", "t", "h", "a", "t", " ", "l",
      "o", "o", "k", "s", " ", "l", "i", "k", "e", " ", "t", "h", "i", "s",
      ",", " ", "a", "n", "d", " ", "i", "t", " ", "c", "a", "n", " ", "s",
      "a", "f", "e", "l", "y", " ", "b", "e", " ", "u", "s", "e", "d">>

allowed_loms ==
    (<<"i", "n", "p", "u", "t", "s">> :> <<"i", "d">>)
    @@ (<<"o", "u", "t", "p", "u", "t", "s">> :> <<"i", "d">>)
    @@ (<<"r", "e", "q", "u", "i", "r", "e", "m", "e", "n", "t", "s">> :> <<"c", "l", "a", "s", "s">>)
    @@ (<<"h", "i", "n", "t", "s">> :> <<"c", "l", "a", "s", "s">>)
    @@ (<<"f", "i", "e", "l", "d", "s">> :> <<"n", "a", "m", "e">>)
    @@ (<<"s", "t", "e", "p", "s">> :> <<"i", "d">>)
    @@ (<<"i", "n">> :> <<"i", "d">>)

\* dict.get(key): the value under key, or None
DictGet(v, key) ==
    IF \E m \in 1..Len(v.items) : v.items[m].key = key
    THEN v.items[CHOOSE m \in 1..Len(v.items) : v.items[m].key = key].value
    ELSE NoneNode

\* the dict comprehension of LAM.__init__ over the elements from the m-th
\* on: each element goes under its key field, or under the secret key (and
\* into errors) when the key field is missing or falsy
RECURSIVE LamFill(_, _, _, _)
LamFill(value, key_field, m, acc) ==
    IF m > Len(value) THEN acc
    ELSE Only({IF Falsy(k)
               THEN LamFill(value, key_field, m + 1,
                            [items |-> PutItem(acc.items, secret_missing_key, v),
                             errors |-> Append(acc.errors, v)])
               ELSE LamFill(value, key_field, m + 1,
                            [items |-> PutItem(acc.items, k.val, v), errors |-> acc.errors])
               : k \in {DictGet(value[m], key_field)}, v \in {value[m]}})

\* LAM.__init__: the keyed items, the secret key popped, and the errors
LAM(value, key_field) ==
    Only({[kind |-> "LAM",
           items |-> SelectSeq(f.items, LAMBDA it : it.key # secret_missing_key),
           errors |-> f.errors]
          : f \in {LamFill(value, key_field, 1, [items |-> <<>>, errors |-> <<>>])}})

\* Ylist: the elements under their indices; a list has no errors
Ylist(value) ==
    [kind |-> "Ylist",
     items |-> [m \in 1..Len(value) |-> [key |-> m - 1, value |-> value[m]]],
     errors |-> <<>>]

\* _recurse_extract_meta on a list found under key, its elements extracted
ExtractMetaList(_data, key, convert_to_lam) ==
    IF convert_to_lam /\ key \in DOMAIN allowed_loms
    THEN LAM(_data, allowed_loms[key])
    ELSE Ylist(_data)

(***************************************************************************)
(* The enum type descriptor (cwl/enumtype.py).  Symbols and nodes are      *)
(* strings, that is sequences of characters; Alphabet lists the characters *)
(* they are made of in code point order.                                   *)
(***************************************************************************)
Alphabet ==
    <<"?", "A", "B", "C", "D", "E", "F", "G", "H", "I", "J", "K", "L", "M",
      "N", "O", "P", "Q", "R", "S", "T", "U", "V", "W", "X", "Y", "Z", "[",
      "]", "_", "a", "b", "c", "d", "e", "f", "g", "h", "i", "j", "k", "l",
      "m", "n", "o", "p", "q", "r", "s", "t", "u", "v", "w", "x", "y", "z">>

Ord(c) == CHOOSE k \in 1..Len(Alphabet) : Alphabet[k] = c

\* s < t for two str
RECURSIVE StrLess(_, _)
StrLess(s, t) ==
    IF t = <<>> THEN FALSE
    ELSE IF s = <<>> THEN TRUE
    ELSE IF s[1] = t[1] THEN StrLess(Tail(s), Tail(t))
    ELSE Ord(s[1]) < Ord(t[1])

\* sorted(set of str)
RECURSIVE Sorted(_)
Sorted(S) ==
    IF S = {} THEN <<>>
    ELSE Only({<<m>> \o Sorted(S \ {m})
               : m \in {CHOOSE m \in S : \A o \in S \ {m} : StrLess(m, o)}})

\* repr of a list of str, as an f-string formats it
ListRepr(L) ==
    <<"[">> \o JoinSep([k \in 1..Len(L) |-> <<"'">> \o L[k] \o <<"'">>], <<",", " ">>) \o <<"]">>

ExpectingOneOf ==
    <<"E", "x", "p", "e", "c", "t", "i", "n", "g", " ", "o", "n", "e", " ",
      "o", "f", ":", " ">>

Range(start, end) == [start |-> start, end |-> end]
Diagnostic(_range, message, severity) ==
    [range |-> _range, message |-> message, severity |-> severity]
LookupNode(loc, intelligence_node) == [loc |-> loc, intelligence_node |-> intelligence_node]

\* the names parse and check give special treatment
TypeKindNames == {"PrimitiveType", "CWLType"}

\* the spellings of a type: bare, array, optional, optional array
Exts == <<(<<>>), (<<"[", "]">>), (<<"?">>), (<<"[", "]", "?">>)>>

\* all_symbols as it would be without the spellings of types
AllSymbolsBare(name, self_symbols) == self_symbols

\* all_symbols of parse
AllSymbols(name, self_symbols) ==
    IF name \in TypeKindNames
    THEN {sy \o Exts[e] : sy \in self_symbols, e \in 1..Len(Exts)}
    ELSE self_symbols

\* CWLEnumType.parse of the descriptor called name whose symbols are
\* self_symbols: the descriptor's symbols, the problems list and the lookup
\* nodes of code_intel after the call
ParseOf(name, self_symbols, node, type_defs, problems_in, lookups_in, value_range) ==
    Only({[symbols |-> syms,
           problems |-> IF node \notin AllSymbols(name, syms)
                        THEN problems_in \o
                             <<Diagnostic(value_range, ExpectingOneOf \o ListRepr(Sorted(syms)),
                                          "Error")>>
                        ELSE problems_in,
           lookup_nodes |-> Append(lookups_in, LookupNode(value_range, name))]
          : syms \in {IF name \in TypeKindNames THEN type_defs \cup self_symbols
                      ELSE self_symbols}})

\* CWLEnumType.completion: the labels of the completion items
Completion(self_symbols) == {[label |-> s] : s \in self_symbols}

(***************************************************************************)
(* The documents, section texts and paths the calls are made with.         *)
(***************************************************************************)
DocPlain == <<"a", ":", " ", "x", "\n", "b", ":", " ", "y", "\n">>
DocNested == <<"a", ":", "\n", " ", " ", "b", ":", " ", "c", "\n", "d", ":", " ", "e", "\n">>
DocQuoted == <<"a", ":", " ", "'", "q", "'", "\n">>
DocLiteral == <<"a", ":", " ", "|", "-", "\n", " ", " ", "l", "\n", "b", ":", " ", "y", "\n">>
DocEmptyFlow == <<"a", ":", " ", "{", "}", "\n">>
DocFlow == <<"a", ":", " ", "{", "p", ":", " ", "q", "}", "\n">>
DocBroken == <<"a", ":", " ", "{", "\n">>

Docs == {DocPlain, DocNested, DocQuoted, DocLiteral, DocEmptyFlow, DocFlow, DocBroken}

SectionTexts == {<<>>, <<"z">>, <<"p", ":", " ", "q", "\n">>, <<"m", "\n", "n">>}

Paths == {<<>>, <<(<<"a">>)>>, <<(<<"a">>), (<<"b">>)>>, <<(<<"k">>)>>}

MaxEdits == 2
MaxLine == 3
MaxCol == 6

(***************************************************************************)
(* The document state machine: one action per call on the document.        *)
(***************************************************************************)
Idle == [op |-> "init", text |-> <<>>, path |-> <<>>, line |-> 0, col |-> 0,
         raised |-> FALSE, ret |-> 0, invoked |-> FALSE,
         edit |-> NoEdit, section |-> <<>>, found |-> NoHit]

(***************************************************************************)
(* The enum descriptors and the calls made on them.  The symbols a         *)
(* descriptor is constructed with come from the schema.                    *)
(***************************************************************************)
EnumNames == {"CWLType", "ScatterMethod"}

DeclaredSymbols ==
    [name \in EnumNames |->
        IF name = "CWLType" THEN {<<"F", "i", "l", "e">>, <<"s", "t", "r", "i", "n", "g">>}
        ELSE {<<"d", "o", "t", "p", "r", "o", "d", "u", "c", "t">>,
              <<"f", "l", "a", "t", "_", "c", "r", "o", "s", "s", "p", "r", "o", "d", "u", "c", "t">>}]

\* the user-defined type names a context may know (keys of type_defs)
UserTypes == {<<"M", "y", "R", "e", "c">>}

Nodes ==
    {<<"s", "t", "r", "i", "n", "g">>, <<"s", "t", "r", "i", "n", "g", "[", "]">>,
     <<"s", "t", "r", "i", "n", "g", "?">>, <<"s", "t", "r", "i", "n", "g", "[", "]", "?">>,
     <<"s", "t", "r", "i", "n", "g", "s">>, <<"M", "y", "R", "e", "c">>,
     <<"M", "y", "R", "e", "c", "[", "]">>, <<"d", "o", "t", "p", "r", "o", "d", "u", "c", "t">>}

Ranges == {Range(Mark(1, 6), Mark(1, 12)), Range(Mark(15, 2), Mark(15, 9))}

MaxCalls == 2

NoPass == [name |-> "", node |-> <<>>, type_defs |-> {}, value_range |-> Range(Mark(0, 0), Mark(0, 0)),
           before |-> {}, given |-> <<>>]

InitEnum ==
    /\ symbols = DeclaredSymbols
    /\ problems = <<>>
    /\ lookup_nodes = <<>>
    /\ pass = NoPass

(***************************************************************************)
(* The lists list-as-map promotion is applied to: up to MaxElems one-line  *)
(* mappings, the m-th on line m - 1.                                       *)
(***************************************************************************)
\* the mapping with the given fields (name and text of each) on a line
Elem(fields, line) ==
    Ydict([m \in 1..Len(fields) |->
              [key |-> fields[m][1],
               value |-> Ystr(fields[m][2], IF fields[m][2] = <<>> THEN "'" ELSE "",
                              Mark(line, 8 * m), Mark(line, 8 * m + Len(fields[m][2])))]],
          TRUE, Mark(line, 2), Mark(line, 8 * Len(fields) + 8))

ElemFields ==
    {<<(<<<<"i", "d">>, <<"a">>>>)>>,
     <<(<<<<"i", "d">>, <<"a">>>>), (<<<<"t", "y", "p", "e">>, <<"s">>>>)>>,
     <<(<<<<"i", "d">>, <<"b">>>>)>>,
     <<(<<<<"i", "d">>, <<>>>>)>>,
     <<(<<<<"t", "y", "p", "e">>, <<"s">>>>)>>,
     <<(<<<<"c", "l", "a", "s", "s">>, <<"c">>>>)>>}

MaxElems == 3

ElemLists ==
    UNION {{[m \in 1..n |-> Elem(fs[m], m - 1)] : fs \in [1..n -> ElemFields]}
           : n \in 0..MaxElems}

\* the keys the lists are found under
ListKeys == {<<"i", "n", "p", "u", "t", "s">>, <<"r", "e", "q", "u", "i", "r", "e", "m", "e", "n", "t", "s">>, <<"d", "o", "c">>}

NoLam == [called |-> FALSE, value |-> <<>>, key |-> <<>>, convert_to_lam |-> FALSE,
          result |-> Ylist(<<>>)]

(***************************************************************************)
(* The line buffers edit_from_quick_diff is applied to.                    *)
(***************************************************************************)
Lines == {<<"a", "\n">>, <<"b", "\n">>, <<"c", "\n">>, <<"x", "\n">>}

MaxLines == 3

Buffers == UNION {[1..n -> Lines] : n \in 0..MaxLines}

NoDiff == [called |-> FALSE, orig |-> <<>>, new |-> <<>>, raised |-> FALSE, edit |-> NoEdit]

\* the tree a run of the loader on text t leaves, or prev when it rejects t
LoadedOr(t, prev) ==
    Only({IF ~r.ok THEN prev ELSE IF Falsy(r.node) THEN YdictEmpty ELSE r.node
          : r \in {ParseYamlWithLineInfo(t)}})

Install(d) ==
    /\ raw_text' = d.raw_text
    /\ raw_lines' = d.raw_lines
    /\ yaml' = d.yaml
    /\ last_good_yaml' = d.last_good_yaml
    /\ yaml_error' = d.yaml_error

InitDoc ==
    /\ \E t \in Docs :
          /\ raw_text = NewDoc(t).raw_text
          /\ raw_lines = NewDoc(t).raw_lines
          /\ yaml = NewDoc(t).yaml
          /\ last_good_yaml = NewDoc(t).last_good_yaml
          /\ yaml_error = NewDoc(t).yaml_error
    /\ last = Idle
    /\ good_parse = NoneNode
    /\ edits = 0
    /\ InitEnum

SetRawText(t) ==
    \E r \in {SetRawTextOf(Doc, t)} :
        /\ Install(r.doc)
        /\ last' = [Idle EXCEPT !.op = "set_raw_text", !.text = t, !.ret = r.ret]
        /\ edits' = IF r.ret = Changed THEN 0 ELSE edits
        /\ UNCHANGED <<good_parse, symbols, problems, lookup_nodes, pass, lam, diff>>

ParseYaml ==
    \E r \in {ParseYamlOf(Doc)} :
        /\ Install(r.doc)
        /\ last' = [Idle EXCEPT !.op = "parse_yaml", !.ret = r.ret, !.invoked = r.invoked]
        /\ good_parse' = IF r.invoked THEN LoadedOr(raw_text, good_parse) ELSE good_parse
        /\ UNCHANGED <<edits, symbols, problems, lookup_nodes, pass, lam, diff>>

SetRawTextAndReparse(t) ==
    \E r \in {SetRawTextAndReparseOf(Doc, t)} :
        /\ Install(r.doc)
        /\ last' = [Idle EXCEPT !.op = "set_raw_text_and_reparse", !.text = t,
                                !.ret = r.ret, !.invoked = r.invoked]
        /\ good_parse' = IF r.invoked THEN LoadedOr(t, good_parse) ELSE good_parse
        /\ edits' = IF r.doc.raw_text # raw_text THEN 0 ELSE edits
        /\ UNCHANGED <<symbols, problems, lookup_nodes, pass, lam, diff>>

GetRawTextForSectionCall(path) ==
    \E r \in {GetRawTextForSection(Doc, path)} :
        /\ last' = [Idle EXCEPT !.op = "get_raw_text_for_section", !.path = path,
                                !.raised = r.raised, !.section = r.text]
        /\ UNCHANGED <<raw_text, raw_lines, yaml, last_good_yaml, yaml_error, good_parse, edits,
                       symbols, problems, lookup_nodes, pass, lam, diff>>

SetSectionFromRawText(text, path) ==
    /\ edits < MaxEdits
    /\ \E r \in {SetSectionFromRawTextOf(Doc, text, path)} :
        /\ Install(r.doc)
        /\ last' = [Idle EXCEPT !.op = "set_section_from_raw_text", !.text = text, !.path = path,
                                !.raised = r.raised, !.edit = r.edit]
        /\ edits' = IF r.raised THEN edits ELSE edits + 1
        /\ UNCHANGED <<good_parse, symbols, problems, lookup_nodes, pass, lam, diff>>

ReverseLookupCall(line, col) ==
    /\ parsed(Doc)
    /\ \E r \in {ReverseLookup(line, col, yaml, <<>>)} :
        /\ last' = [Idle EXCEPT !.op = "reverse_lookup", !.line = line, !.col = col,
                                !.raised = r.raised, !.found = r]
        /\ UNCHANGED <<raw_text, raw_lines, yaml, last_good_yaml, yaml_error, good_parse, edits,
                       symbols, problems, lookup_nodes, pass, lam, diff>>

\* the section texts a caller passes for a path: the fixed ones and the text
\* get_raw_text_for_section returns for that path
TextsFor(path) ==
    SectionTexts \cup {g.text : g \in {r \in {GetRawTextForSection(Doc, path)} : ~r.raised}}

\* the calls that change the document
Next ==
    \/ \E t \in Docs : SetRawText(t)
    \/ ParseYaml
    \/ \E t \in Docs \cup {raw_text} : SetRawTextAndReparse(t)
    \/ \E path \in Paths : \E text \in TextsFor(path) : SetSectionFromRawText(text, path)

Init == InitDoc /\ lam = NoLam /\ diff = NoDiff

Spec == Init /\ [][Next]_vars

\* a view on a document: sections are read and written back, the text is
\* reparsed, positions are looked up
NextView ==
    \/ ParseYaml
    \/ \E t \in Docs : SetRawTextAndReparse(t)
    \/ \E path \in Paths : GetRawTextForSectionCall(path)
    \/ \E path \in Paths : \E text \in TextsFor(path) : SetSectionFromRawText(text, path)
    \/ \E line \in 0..MaxLine, col \in 0..MaxCol : ReverseLookupCall(line, col)

SpecView == Init /\ [][NextView]_vars

(***************************************************************************)
(* Properties of the document state machine (Spec).                        *)
(***************************************************************************)

\* C1: last_good_yaml is the tree of the most recent successful parse (None
\* when no parse has succeeded yet); replacing the text or failing to parse
\* does not touch it, and a failed parse leaves yaml_error set.
LastGoodIsLastSuccessfulParse ==
    /\ last_good_yaml = good_parse
    /\ (last.invoked /\ ~ParseYamlWithLineInfo(raw_text).ok) =>
           /\ yaml_error = DocumentError
           /\ last.ret \in {ParseFail, BitOr(ParseFail, Changed)}

\* a parse has just failed on a document that has an earlier good tree
FailedParseKeepsLastGood ==
    /\ last.invoked
    /\ yaml_error = DocumentError
    /\ last_good_yaml # NoneNode
    /\ last_good_yaml = good_parse

\* C2: set_raw_text_and_reparse with the text the document already has,
\* while a tree exists, reports ParseSkipped, does not run the loader and
\* leaves raw_text, yaml, last_good_yaml and yaml_error as they were.
ReparseOfSameTextIsSkipped ==
    [][(/\ last'.op = "set_raw_text_and_reparse"
        /\ last'.text = raw_text
        /\ yaml # NoneNode)
       => (/\ last'.ret = ParseSkipped
           /\ ~last'.invoked
           /\ raw_text' = raw_text
           /\ raw_lines' = raw_lines
           /\ yaml' = yaml
           /\ last_good_yaml' = last_good_yaml
           /\ yaml_error' = yaml_error)]_vars

\* a reparse of the unchanged text of a parsed document has been skipped
SameTextReparseSkipped ==
    /\ last.op = "set_raw_text_and_reparse"
    /\ last.text = raw_text
    /\ last.ret = ParseSkipped
    /\ ~last.invoked
    /\ yaml # NoneNode

\* C3: when set_section_from_raw_text raises, raw_text, raw_lines, yaml and
\* yaml_error are what they were before the call.
FailedSetSectionChangesNothing ==
    [][(last'.op = "set_section_from_raw_text" /\ last'.raised)
       => (/\ raw_text' = raw_text
           /\ raw_lines' = raw_lines
           /\ yaml' = yaml
           /\ yaml_error' = yaml_error)]_vars

\* set_section_from_raw_text has raised on a parsed document, for a path that
\* leads to a non-empty flow-style mapping
SetSectionRaisedOnFlowMapping ==
    /\ last.op = "set_section_from_raw_text"
    /\ last.raised
    /\ yaml # NoneNode
    /\ GetItem(yaml, last.path).ok
    /\ GetItem(yaml, last.path).node.flow
    /\ GetItem(yaml, last.path).node.items # <<>>

\* C12: the current tree is never stale.  In every state, a tree that is not
\* None is the tree the loader gives for the current raw_text, and yaml_error
\* is None; a call that changes raw_text leaves yaml None unless the call
\* itself parsed the new text with success, and yaml becomes a tree again
\* only through a successful run of the loader.
CurrentTreeIsNeverStale ==
    /\ [](yaml # NoneNode =>
             /\ yaml_error = NoError
             /\ \A r \in {ParseYamlWithLineInfo(raw_text)} :
                   r.ok /\ yaml = (IF Falsy(r.node) THEN YdictEmpty ELSE r.node))
    /\ [][/\ raw_text' # raw_text =>
                \/ yaml' = NoneNode
                \/ last'.invoked /\ last'.ret = BitOr(ParseSuccess, Changed)
          /\ (yaml = NoneNode /\ yaml' # NoneNode) =>
                last'.invoked /\ last'.ret \in {ParseSuccess, BitOr(ParseSuccess, Changed)}]_vars

\* set_section_from_raw_text has changed the text of a parsed document: the
\* document has no current tree, only the last good one
SectionEditLeftNoTree ==
    /\ last.op = "set_section_from_raw_text"
    /\ ~last.raised
    /\ edits > 0
    /\ yaml = NoneNode
    /\ last_good_yaml # NoneNode

(***************************************************************************)
(* Properties of a view on the document (SpecView).                        *)
(***************************************************************************)

\* what is left of a tree without its marks and styles: the nesting, the
\* keys in order and the scalar values
RECURSIVE Structure(_)
Structure(node) ==
    [kind |-> node.kind,
     val |-> node.val,
     items |-> [m \in 1..Len(node.items) |->
                   [key |-> node.items[m].key, value |-> Structure(node.items[m].value)]]]

\* get_raw_text_for_section(path), set_section_from_raw_text of that text at
\* path, then parse_yaml: the tree the document ends up with
RoundTrip(d, path) ==
    Only({IF g.raised THEN [raised |-> TRUE, yaml |-> NoneNode]
          ELSE Only({IF s.raised THEN [raised |-> TRUE, yaml |-> NoneNode]
                     ELSE [raised |-> FALSE, yaml |-> ParseYamlOf(s.doc).doc.yaml]
                     : s \in {SetSectionFromRawTextOf(d, g.text, path)}})
          : g \in {GetRawTextForSection(d, path)}})

\* the nodes the round trip is claimed for: every node with a position that
\* is not a non-empty flow-style mapping
RoundTripNode(node) ==
    /\ HasMarks(node)
    /\ ~(node.kind = "map" /\ node.flow /\ node.items # <<>>)

\* C4: on a parsed document, for every path to a node that is not a non-empty
\* flow-style mapping, writing back the text get_raw_text_for_section returns
\* for the path and reparsing gives a tree of the same structure as before.
RoundTripKeepsStructure ==
    (yaml # NoneNode /\ yaml_error = NoError) =>
        \A path \in Paths :
            \A g \in {GetItem(yaml, path)} :
                (g.ok /\ RoundTripNode(g.node) /\ ~GetRawTextForSection(Doc, path).raised) =>
                    \A r \in {RoundTrip(Doc, path)} :
                        ~r.raised /\ Structure(r.yaml) = Structure(yaml)

\* (line, col) lies in the range of v, from its start mark to its end mark
Contains(v, line, col) ==
    /\ HasMarks(v)
    /\ (v.start.line < line \/ (v.start.line = line /\ v.start.column <= col))
    /\ (line < v.end.line \/ (line = v.end.line /\ col <= v.end.column))

\* the nodes of the tree under node whose range contains (line, col), each
\* with its path
RECURSIVE Covering(_, _, _, _)
Covering(node, path, line, col) ==
    (IF Contains(node, line, col) THEN {[path |-> path, node |-> node]} ELSE {})
    \cup UNION {Covering(node.items[m].value, Append(path, node.items[m].key), line, col)
                : m \in 1..Len(node.items)}

\* p is a proper prefix of q
ProperPrefix(p, q) == Len(p) < Len(q) /\ SubSeq(q, 1, Len(p)) = p

\* C5: reverse_lookup on a parsed document returns, for a point some node's
\* range contains, an innermost such node with its path, and returns nothing
\* for a point no node's range contains.
ReverseLookupFindsInnermost ==
    (last.op = "reverse_lookup") =>
        \A c \in {Covering(yaml, <<>>, last.line, last.col)} :
            /\ ~last.raised
            /\ (c = {}) => ~last.found.hit
            /\ (c # {}) =>
                  /\ last.found.hit
                  /\ [path |-> last.found.path, node |-> last.found.node] \in c
                  /\ \A o \in c : ~ProperPrefix(last.found.path, o.path)

(***************************************************************************)
(* edit_from_quick_diff on its own (SpecDiff): the function is static; a   *)
(* behaviour is one call of it, with any two line buffers as arguments.    *)
(***************************************************************************)
\* one document, nothing called yet
InitOne == InitDoc /\ raw_text = DocPlain

InitDiff ==
    /\ InitOne
    /\ lam = NoLam
    /\ \E orig_lines \in Buffers, new_lines \in Buffers :
          diff = [NoDiff EXCEPT !.orig = orig_lines, !.new = new_lines]

QuickDiff ==
    /\ ~diff.called
    /\ \E r \in {EditFromQuickDiff(diff.orig, diff.new)} :
          diff' = [diff EXCEPT !.called = TRUE, !.raised = r.raised, !.edit = r.edit]
    /\ UNCHANGED <<docvars, enumvars, lam>>

NextDiff == QuickDiff

SpecDiff == InitDiff /\ [][NextDiff]_vars

\* length of the longest common prefix of two buffers
CommonPrefix(o, n) ==
    CHOOSE k \in 0..Min(Len(o), Len(n)) :
        /\ \A m \in 1..k : o[m] = n[m]
        /\ k = Min(Len(o), Len(n)) \/ o[k + 1] # n[k + 1]

\* length of the longest common suffix of two buffers that leaves their
\* common prefix alone
CommonSuffix(o, n) ==
    CHOOSE k \in 0..(Min(Len(o), Len(n)) - CommonPrefix(o, n)) :
        /\ \A m \in 0..(k - 1) : o[Len(o) - m] = n[Len(n) - m]
        /\ k = Min(Len(o), Len(n)) - CommonPrefix(o, n) \/ o[Len(o) - k] # n[Len(n) - k]

\* C10: edit_from_quick_diff returns the edit that trims the longest common
\* prefix and the longest common suffix: it starts at the line after the
\* prefix, the old lines from its end line on are the common suffix, and its
\* text is the new lines in between.
QuickDiffTrimsCommonEnds ==
    diff.called =>
        \A p \in {CommonPrefix(diff.orig, diff.new)}, q \in {CommonSuffix(diff.orig, diff.new)} :
            /\ ~diff.raised
            /\ diff.edit.start = Mark(p, 0)
            /\ diff.edit.end = Mark(Len(diff.orig) - q, 0)
            /\ diff.edit.text = Join(SubSeq(diff.new, p + 1, Len(diff.new) - q))

\* mark a is at or before mark b
MarkLeq(a, b) == a.line < b.line \/ (a.line = b.line /\ a.column <= b.column)

\* C11: for every pair of line buffers edit_from_quick_diff returns, without
\* raising, an edit whose range is well formed (its start is not negative
\* and not after its end) and that turns the old text into the new one: the
\* old lines before the start line, the edit's text and the old lines from
\* the end line on make up the text of the new lines.
QuickDiffEditYieldsNewText ==
    diff.called =>
        /\ ~diff.raised
        /\ diff.edit.start.line >= 0
        /\ MarkLeq(diff.edit.start, diff.edit.end)
        /\ Join(SubSeq(diff.orig, 1, diff.edit.start.line))
               \o diff.edit.text
               \o Join(SubSeq(diff.orig, diff.edit.end.line + 1, Len(diff.orig)))
           = Join(diff.new)

(***************************************************************************)
(* List-as-map promotion on its own (SpecLam): a behaviour is the         *)
(* extraction of one list, found under any of the keys, with or without    *)
(* promotion asked for.                                                    *)
(***************************************************************************)
InitLam ==
    /\ InitOne
    /\ diff = NoDiff
    /\ \E value \in ElemLists, key \in ListKeys, convert_to_lam \in BOOLEAN :
          lam = [NoLam EXCEPT !.value = value, !.key = key,
                              !.convert_to_lam = convert_to_lam]

ExtractMeta ==
    /\ ~lam.called
    /\ \E r \in {ExtractMetaList(lam.value, lam.key, lam.convert_to_lam)} :
          lam' = [lam EXCEPT !.called = TRUE, !.result = r]
    /\ UNCHANGED <<docvars, enumvars, diff>>

NextLam == ExtractMeta

SpecLam == InitLam /\ [][NextLam]_vars

\* element v has the field
HasField(v, field) == \E m \in 1..Len(v.items) : v.items[m].key = field

\* the values of a mapping, in iteration order
Values(items) == [m \in 1..Len(items) |-> items[m].value]

\* C6: a promoted list of N elements, M of them with the key field, is a
\* mapping of exactly those M elements in their original order, each under
\* its key field, and its errors are exactly the other N - M elements.
LamKeepsKeyedElementsInOrder ==
    (lam.called /\ lam.result.kind = "LAM") =>
        \A kf \in {allowed_loms[lam.key]} :
            /\ Values(lam.result.items) = SelectSeq(lam.value, LAMBDA v : HasField(v, kf))
            /\ \A m \in 1..Len(lam.result.items) :
                  lam.result.items[m].key = DictGet(lam.result.items[m].value, kf).val
            /\ lam.result.errors = SelectSeq(lam.value, LAMBDA v : ~HasField(v, kf))

\* the elements of a sequence
Elems(seq) == {seq[m] : m \in 1..Len(seq)}

\* C7: promotion loses no element: every element of the list is a value of
\* the mapping or an entry of errors; an element without the key field is in
\* errors, and of two elements with the same key at least one is.
LamLosesNoElement ==
    (lam.called /\ lam.result.kind = "LAM") =>
        \A kf \in {allowed_loms[lam.key]} :
            \A i \in 1..Len(lam.value) :
                /\ lam.value[i] \in Elems(Values(lam.result.items)) \cup Elems(lam.result.errors)
                /\ ~HasField(lam.value[i], kf) => lam.value[i] \in Elems(lam.result.errors)
                /\ \A j \in 1..Len(lam.value) :
                      (/\ i # j
                       /\ HasField(lam.value[i], kf) /\ HasField(lam.value[j], kf)
                       /\ DictGet(lam.value[i], kf).val = DictGet(lam.value[j], kf).val)
                      => (\/ lam.value[i] \in Elems(lam.result.errors)
                          \/ lam.value[j] \in Elems(lam.result.errors))

(***************************************************************************)
(* The enum descriptors under validation (SpecEnum).  A validation pass    *)
(* hands parse its context (code_intel, whose type_defs are the user's     *)
(* types) and its problems list; the descriptors outlive the passes.       *)
(***************************************************************************)
ParseCall(name, node, type_defs, value_range, problems_in, lookups_in) ==
    \E r \in {ParseOf(name, symbols[name], node, type_defs, problems_in, lookups_in,
                      value_range)} :
        /\ symbols' = [symbols EXCEPT ![name] = r.symbols]
        /\ problems' = r.problems
        /\ lookup_nodes' = r.lookup_nodes
        /\ pass' = [name |-> name, node |-> node, type_defs |-> type_defs,
                    value_range |-> value_range, before |-> symbols[name],
                    given |-> problems_in]
        /\ UNCHANGED <<docvars, lam, diff>>

\* parse as the first call of a validation pass: a new context and an
\* empty problems list
ParseInNewPass(name, node, type_defs, value_range) ==
    ParseCall(name, node, type_defs, value_range, <<>>, <<>>)

\* parse as a further call of the pass of the previous call
ParseInSamePass(name, node, value_range) ==
    /\ pass.name # ""
    /\ Len(lookup_nodes) < MaxCalls
    /\ ParseCall(name, node, pass.type_defs, value_range, problems, lookup_nodes)

NextEnum ==
    \/ \E name \in EnumNames, node \in Nodes, type_defs \in SUBSET UserTypes,
          value_range \in Ranges : ParseInNewPass(name, node, type_defs, value_range)
    \/ \E name \in EnumNames, node \in Nodes, value_range \in Ranges :
          ParseInSamePass(name, node, value_range)

InitPasses == InitOne /\ lam = NoLam /\ diff = NoDiff

SpecEnum == InitPasses /\ [][NextEnum]_vars

\* L is in ascending order without repetitions and lists exactly S
IsSortedListOf(L, S) ==
    /\ {L[k] : k \in 1..Len(L)} = S
    /\ \A k \in 1..(Len(L) - 1) : StrLess(L[k], L[k + 1])

\* the four spellings of type s
Spellings(s) == {s, s \o <<"[", "]">>, s \o <<"?">>, s \o <<"[", "]", "?">>}

\* C8: with S the symbols of the descriptor at the call, and for a type-kind
\* descriptor the type names of the context, parse leaves the problems list
\* as it is exactly when the node is a spelling s, s[], s? or s[]? of some s
\* in S (a bare symbol for any other enum); otherwise it appends one Error
\* diagnostic at the value range with the message "Expecting one of: "
\* followed by the sorted list of S.
SuffixSugar ==
    (pass.name # "") =>
        \A S \in {IF pass.name \in {"PrimitiveType", "CWLType"}
                  THEN pass.before \cup pass.type_defs ELSE pass.before} :
            /\ IsSortedListOf(Sorted(S), S)
            /\ IF pass.name \in {"PrimitiveType", "CWLType"}
               THEN (problems = pass.given) <=> (\E s \in S : pass.node \in Spellings(s))
               ELSE (problems = pass.given) <=> (pass.node \in S)
            /\ (problems # pass.given) =>
                   problems = Append(pass.given,
                                     [range |-> pass.value_range,
                                      message |-> ExpectingOneOf \o ListRepr(Sorted(S)),
                                      severity |-> "Error"])

\* "strings" has been rejected by the CWLType descriptor in a pass that had
\* a problem already: the list has one more diagnostic, at the value range,
\* with the symbols File and string in its message
StringsRejected ==
    /\ pass.name = "CWLType"
    /\ pass.node = <<"s", "t", "r", "i", "n", "g", "s">>
    /\ pass.given # <<>>
    /\ Len(problems) = Len(pass.given) + 1
    /\ problems[Len(problems)].range = pass.value_range
    /\ problems[Len(problems)].message =
          <<"E", "x", "p", "e", "c", "t", "i", "n", "g", " ", "o", "n",
            "e", " ", "o", "f", ":", " ", "[", "'", "F", "i", "l", "e",
            "'", ",", " ", "'", "s", "t", "r", "i", "n", "g", "'", "]">>

\* C9: after every parse call of a type-kind descriptor, the names the
\* descriptor accepts and offers as completions are its declared symbols and
\* the type names of the call's context, whatever the calls before it: the
\* node is accepted only if it spells one of these.
AcceptsDeclaredAndContextOnly ==
    (pass.name \in {"PrimitiveType", "CWLType"}) =>
        \A S \in {DeclaredSymbols[pass.name] \cup pass.type_defs} :
            /\ Completion(symbols[pass.name]) = {[label |-> s] : s \in S}
            /\ (problems = pass.given) <=> (\E s \in S : pass.node \in Spellings(s))

====
